---- MODULE Spec2Model ----
(***************************************************************************)
(* A model of src/main.py: the repository identifier parser                *)
(* (parse_github_url), the single-level tree lister (get_repo_structure),  *)
(* the content aggregator (get_selected_contents) and the request flow of  *)
(* main().                                                                 *)
(*                                                                         *)
(* Strings are sequences of one-character strings, so that strip,          *)
(* startswith, replace, split, endswith and the ordering of paths are      *)
(* computed character by character as Python computes them.                *)
(***************************************************************************)
EXTENDS Integers, Sequences, FiniteSets, TLC

VARIABLES
    pc,        \* position of the running call / of main()
    status,    \* how the call under study or the request ended
    url,       \* the text handed to parse_github_url (repo_url)
    pres,      \* what parse_github_url returned or raised
    base,      \* the previous parse call (input and outcome), or NoCall
    lpath,     \* the path argument of get_repo_structure
    raw,       \* what repo.get_contents(path) produced for the listing
    items,     \* the list get_repo_structure returned
    selected,  \* selected_files, the argument of get_selected_contents
    remote,    \* what repo.get_contents(file) produces for each file path
    doc,       \* the string get_selected_contents returned
    errors,    \* st.error calls, in order
    warnings,  \* st.warning calls, in order
    calls      \* calls made to the GitHub API, in order

vars == <<pc, status, url, pres, base, lpath, raw, items, selected, remote, doc,
          errors, warnings, calls>>

(***************************************************************************)
(* Bounds of the model.                                                    *)
(***************************************************************************)
MaxBody == 3       \* tokens of a parser input after its prefix
MaxEntries == 3    \* raw entries of one directory listing
MaxSel == 3        \* paths of one selection handed to the aggregator

(***************************************************************************)
(* String library (Python str methods used by the code).                   *)
(***************************************************************************)
Drop(s, n) == SubSeq(s, n + 1, Len(s))

Take(s, n) == SubSeq(s, 1, n)

RECURSIVE Flatten(_)
Flatten(ss) == IF ss = <<>> THEN <<>> ELSE Head(ss) \o Flatten(Tail(ss))

\* str.startswith(prefix)
StartsWith(s, p) == Len(s) >= Len(p) /\ Take(s, Len(p)) = p

\* str.endswith(suffix)
EndsWith(s, x) == Len(s) >= Len(x) /\ Drop(s, Len(s) - Len(x)) = x

IsSpace(c) == c \in {" ", "\t", "\n"}

RECURSIVE LStrip(_)
LStrip(s) == IF s # <<>> /\ IsSpace(Head(s)) THEN LStrip(Tail(s)) ELSE s

RECURSIVE RStrip(_)
RStrip(s) ==
    IF s # <<>> /\ IsSpace(s[Len(s)]) THEN RStrip(Take(s, Len(s) - 1)) ELSE s

\* str.strip()
Strip(s) == RStrip(LStrip(s))

RECURSIVE LStripChar(_, _)
LStripChar(s, c) == IF s # <<>> /\ Head(s) = c THEN LStripChar(Tail(s), c) ELSE s

RECURSIVE RStripChar(_, _)
RStripChar(s, c) ==
    IF s # <<>> /\ s[Len(s)] = c THEN RStripChar(Take(s, Len(s) - 1), c) ELSE s

\* str.strip(c) for a one-character argument
StripChar(s, c) == RStripChar(LStripChar(s, c), c)

\* str.replace(old, new): every non-overlapping occurrence, left to right
RECURSIVE Replace(_, _, _)
Replace(s, old, new) ==
    IF Len(s) < Len(old) THEN s
    ELSE IF StartsWith(s, old)
         THEN new \o Replace(Drop(s, Len(old)), old, new)
         ELSE <<Head(s)>> \o Replace(Tail(s), old, new)

\* str.split(c): every separator splits, empty pieces are kept
RECURSIVE Split(_, _)
Split(s, c) ==
    IF \A i \in 1..Len(s) : s[i] # c THEN <<s>>
    ELSE LET i == CHOOSE k \in 1..Len(s) :
                      s[k] = c /\ \A j \in 1..(k - 1) : s[j] # c
         IN <<Take(s, i - 1)>> \o Split(Drop(s, i), c)

(***************************************************************************)
(* parse_github_url                                                        *)
(***************************************************************************)
HttpsPrefix ==
    <<"h","t","t","p","s",":","/","/","g","i","t","h","u","b",".","c","o","m","/">>

HttpPrefix ==
    <<"h","t","t","p",":","/","/","g","i","t","h","u","b",".","c","o","m","/">>

ParseOk(owner, repo) ==
    [exc |-> "none", owner |-> owner, repo |-> repo, msg |-> "none"]

\* the except clause: whatever was raised inside leaves as a ValueError
ParseRaise(inner) ==
    [exc |-> "ValueError", owner |-> <<>>, repo |-> <<>>, msg |-> inner]

\* A mutant: the repository is taken from the last segment and a single
\* segment is accepted.
ParseLastSegment(u) ==
    LET t     == Strip(u)
        r     == IF StartsWith(t, HttpsPrefix) \/ StartsWith(t, HttpPrefix)
                 THEN Replace(Replace(t, HttpsPrefix, <<>>), HttpPrefix, <<>>)
                 ELSE t
        parts == Split(StripChar(r, "/"), "/")
    IN  IF t = <<>> THEN ParseRaise("Please enter a GitHub URL")
        ELSE IF parts[1] = <<>> \/ parts[Len(parts)] = <<>>
             THEN ParseRaise("Both username and repository name are required")
             ELSE ParseOk(parts[1], parts[Len(parts)])

ParseGithubUrl(u) ==
    LET t     == Strip(u)
        r     == IF StartsWith(t, HttpsPrefix) \/ StartsWith(t, HttpPrefix)
                 THEN Replace(Replace(t, HttpsPrefix, <<>>), HttpPrefix, <<>>)
                 ELSE t
        parts == Split(StripChar(r, "/"), "/")
    IN  IF t = <<>> THEN ParseRaise("Please enter a GitHub URL")
        ELSE IF Len(parts) < 2
             THEN ParseRaise("Invalid GitHub URL format")
             ELSE IF parts[1] = <<>> \/ parts[2] = <<>>
                  THEN ParseRaise("Both username and repository name are required")
                  ELSE ParseOk(parts[1], parts[2])

(***************************************************************************)
(* Inputs of the parser: an optional prefix followed by up to MaxBody      *)
(* tokens, which covers the three documented shapes, missing segments,     *)
(* doubled slashes, surrounding blanks and a second scheme in the text.    *)
(***************************************************************************)
HostPrefix == <<"g","i","t","h","u","b",".","c","o","m","/">>

OtherHostPrefix ==
    <<"h","t","t","p","s",":","/","/","g","i","t","l","a","b",".","c","o","m","/">>

SchemeHost ==
    <<"h","t","t","p","s",":","/","/","g","i","t","h","u","b",".","c","o","m">>

UrlPrefixes ==
    {<<>>, HttpsPrefix, HttpPrefix, HostPrefix, OtherHostPrefix, SchemeHost}

BodyTokens == {<<"a">>, <<"b">>, <<"/">>, <<" ">>, <<"h","t","t","p",":">>}

BoundedSeq(S, n) == UNION {[1..k -> S] : k \in 0..n}

UrlInputs ==
    {p \o Flatten(b) : p \in UrlPrefixes, b \in BoundedSeq(BodyTokens, MaxBody)}

\* segments a caller may append to an identifier, as in ".../tree/main"
ExtraSegments ==
    { << <<"t","r","e","e">>, <<"m","a","i","n">> >>,
      << <<"t","r","e","e">> >>,
      << <<>> >>,
      << <<" ">> >>,
      << <<>>, <<"g","i","t","h","u","b",".","c","o","m">>, <<"z">> >> }

RECURSIVE AppendSegments(_, _)
AppendSegments(x, segs) ==
    IF segs = <<>> THEN x
    ELSE AppendSegments(x \o <<"/">> \o Head(segs), Tail(segs))

NoResult == [exc |-> "unset", owner |-> <<>>, repo |-> <<>>, msg |-> "none"]

NoCall == [arg |-> <<>>, res |-> NoResult]

NoListing == [kind |-> "unset", entries |-> <<>>]

(***************************************************************************)
(* The parser called on its own: once on an input, then once more on the   *)
(* same input with further segments appended.                              *)
(***************************************************************************)
InitParse ==
    /\ pc = "parse_call"
    /\ status = "running"
    /\ url \in UrlInputs
    /\ pres = NoResult
    /\ base = NoCall
    /\ lpath = <<>>
    /\ raw = NoListing
    /\ items = <<>>
    /\ selected = <<>>
    /\ remote = <<>>
    /\ doc = <<>>
    /\ errors = <<>>
    /\ warnings = <<>>
    /\ calls = <<>>

ParseCall ==
    /\ pc = "parse_call"
    /\ pres' = ParseGithubUrl(url)
    /\ status' = IF pres'.exc = "none" THEN "returned" ELSE "raised"
    /\ pc' = "parse_done"
    /\ UNCHANGED <<url, base, lpath, raw, items, selected, remote, doc,
                   errors, warnings, calls>>

ParseExtended ==
    /\ pc = "parse_done"
    /\ base = NoCall
    /\ \E segs \in ExtraSegments : url' = AppendSegments(url, segs)
    /\ base' = [arg |-> url, res |-> pres]
    /\ pc' = "parse_call"
    /\ UNCHANGED <<status, pres, lpath, raw, items, selected, remote, doc,
                   errors, warnings, calls>>

NextParse == ParseCall \/ ParseExtended

SpecParse == InitParse /\ [][NextParse]_vars

(***************************************************************************)
(* Properties of the parser.                                               *)
(***************************************************************************)
RepoNames == {<<"a">>, <<"b">>}

\* the three shapes of the help text: 1 full URL, 2 host/owner/repo, 3 owner/repo
Shape(k, o, r) ==
    (CASE k = 1 -> HttpsPrefix [] k = 2 -> HostPrefix [] OTHER -> <<>>)
        \o o \o <<"/">> \o r

\* C1: every one of the three accepted shapes of an identifier parses to the
\* pair (owner, repo) it was built from.
C1_ThreeShapesSamePair ==
    pc = "parse_done" =>
        \A k \in 1..3 : \A o \in RepoNames : \A r \in RepoNames :
            url = Shape(k, o, r) => pres = ParseOk(o, r)

\* the text with an optional "https://host/" or "http://host/" removed
RemoveSchemeHost(s) ==
    LET n == IF StartsWith(s, <<"h","t","t","p","s",":","/","/">>) THEN 8
             ELSE IF StartsWith(s, <<"h","t","t","p",":","/","/">>) THEN 7
             ELSE 0
        S == {i \in (n + 1)..Len(s) : s[i] = "/"}
    IN  IF n = 0 \/ S = {} THEN s
        ELSE Drop(s, CHOOSE i \in S : \A j \in S : i <= j)

\* the number of non-empty pieces between slashes
NonEmptySegments(s) ==
    Cardinality({i \in 1..Len(s) : s[i] # "/" /\ (i = 1 \/ s[i - 1] = "/")})

MustBeRejected(u) ==
    \/ Strip(u) = <<>>
    \/ NonEmptySegments(RemoveSchemeHost(Strip(u))) < 2

\* C2: an input that is blank, or that has fewer than two non-empty segments
\* once its scheme and host are removed, is rejected with ValueError and yields
\* no pair; ValueError is the only error the parser lets out.
C2_InvalidIdentifierRejected ==
    pc = "parse_done" =>
        /\ pres.exc \in {"none", "ValueError"}
        /\ MustBeRejected(url) =>
               /\ pres.exc = "ValueError"
               /\ status = "raised"
               /\ pres.owner = <<>> /\ pres.repo = <<>>

C2_Witness ==
    /\ pc = "parse_done"
    /\ StartsWith(url, HttpPrefix)
    /\ Len(url) > Len(HttpPrefix)
    /\ MustBeRejected(url)
    /\ pres.exc = "ValueError"

\* C3: when an input parses to a pair, the same input with further segments
\* appended parses to that same pair.
C3_AppendedSegmentsIgnored ==
    (pc = "parse_done" /\ base # NoCall /\ base.res.exc = "none") =>
        pres = base.res

(***************************************************************************)
(* get_repo_structure                                                      *)
(***************************************************************************)
\* the characters of the model in code-point order, which is the order
\* Python compares strings by
CodeOrder ==
    <<"\n", " ", "#", ".", "/", ":", "=",
      "A", "B", "C", "D", "E", "F", "G", "H", "I", "J", "K", "L", "M",
      "N", "O", "P", "Q", "R", "S", "T", "U", "V", "W", "X", "Y", "Z",
      "a", "b", "c", "d", "e", "f", "g", "h", "i", "j", "k", "l", "m",
      "n", "o", "p", "q", "r", "s", "t", "u", "v", "w", "x", "y", "z">>

CharCode(c) == CHOOSE i \in 1..Len(CodeOrder) : CodeOrder[i] = c

\* s < t on Python strings
RECURSIVE StrLess(_, _)
StrLess(s, t) ==
    IF t = <<>> THEN FALSE
    ELSE IF s = <<>> THEN TRUE
    ELSE IF Head(s) = Head(t) THEN StrLess(Tail(s), Tail(t))
    ELSE CharCode(Head(s)) < CharCode(Head(t))

\* the tuple given to endswith on line 71
Extensions ==
    << <<".","m","d">>, <<".","p","y">>, <<".","j","s">>, <<".","t","s","x">>,
       <<".","t","s">>, <<".","j","s","x">>, <<".","t","x","t">> >>

\* A mutant: the extension is looked for anywhere in the name.
ContainsExtension(name) ==
    \E i \in 1..Len(Extensions) : \E k \in 0..Len(name) :
        StartsWith(Drop(name, k), Extensions[i])

\* content.name.endswith((...))
HasListedExtension(name) ==
    \E i \in 1..Len(Extensions) : EndsWith(name, Extensions[i])

Item(c, type) == [path |-> c.path, type |-> type, name |-> c.name]

\* the for loop of lines 64-76
RECURSIVE CollectItems(_)
CollectItems(contents) ==
    IF contents = <<>> THEN <<>>
    ELSE LET c == Head(contents)
         IN  (IF c.type = "dir" THEN <<Item(c, "directory")>>
              ELSE IF HasListedExtension(c.name) THEN <<Item(c, "file")>>
              ELSE <<>>)
             \o CollectItems(Tail(contents))

\* the sort key (x['type'] == 'file', x['path']): tuples compare left to right
KeyLess(x, y) ==
    \/ x.type # "file" /\ y.type = "file"
    \/ /\ (x.type = "file") = (y.type = "file")
       /\ StrLess(x.path, y.path)

RECURSIVE InsertByKey(_, _)
InsertByKey(x, s) ==
    IF s = <<>> THEN <<x>>
    ELSE IF KeyLess(x, Head(s)) THEN <<x>> \o s
    ELSE <<Head(s)>> \o InsertByKey(x, Tail(s))

\* A mutant: the items are sorted by path alone.
RECURSIVE InsertByPath(_, _)
InsertByPath(x, s) ==
    IF s = <<>> THEN <<x>>
    ELSE IF StrLess(x.path, Head(s).path) THEN <<x>> \o s
    ELSE <<Head(s)>> \o InsertByPath(x, Tail(s))

RECURSIVE SortedByPath(_)
SortedByPath(s) ==
    IF s = <<>> THEN <<>>
    ELSE InsertByPath(s[Len(s)], SortedByPath(Take(s, Len(s) - 1)))

\* sorted(items, key=...): a stable sort
RECURSIVE Sorted(_)
Sorted(s) ==
    IF s = <<>> THEN <<>>
    ELSE InsertByKey(s[Len(s)], Sorted(Take(s, Len(s) - 1)))

ListingCall(path) ==
    [api |-> "get_contents", path |-> path, by |-> "get_repo_structure"]

PathError(path) == [text |-> "Error accessing path", path |-> path]

\* A mutant: a failed listing is tried a second time before it is reported.
GetRepoStructureRetry(path, out) ==
    IF out.kind = "list"
    THEN [items  |-> Sorted(CollectItems(out.entries)),
          errors |-> <<>>,
          calls  |-> <<ListingCall(path)>>,
          raised |-> FALSE]
    ELSE [items  |-> Sorted(<<>>),
          errors |-> <<PathError(path)>>,
          calls  |-> <<ListingCall(path), ListingCall(path)>>,
          raised |-> FALSE]

\* get_repo_structure(repo, path), given what repo.get_contents(path) does:
\* it returns a list, raises, or returns one ContentFile (the path is a file),
\* over which the for loop raises TypeError
GetRepoStructure(path, out) ==
    IF out.kind = "list"
    THEN [items  |-> Sorted(CollectItems(out.entries)),
          errors |-> <<>>,
          calls  |-> <<ListingCall(path)>>,
          raised |-> FALSE]
    ELSE [items  |-> Sorted(<<>>),
          errors |-> <<PathError(path)>>,
          calls  |-> <<ListingCall(path)>>,
          raised |-> FALSE]

(***************************************************************************)
(* Directory listings the hosting API may return.                          *)
(***************************************************************************)
SrcDir == <<"s","r","c">>

ListPool ==
    { [name |-> <<"s","r","c">>, type |-> "dir"],
      [name |-> <<"d","o","c","s",".","m","d">>, type |-> "dir"],
      [name |-> <<"R","E","A","D","M","E",".","m","d">>, type |-> "file"],
      [name |-> <<"a",".","p","y">>, type |-> "file"],
      [name |-> <<"b",".","p","y">>, type |-> "file"],
      [name |-> <<"m",".","j","s">>, type |-> "file"],
      [name |-> <<"c",".","t","s","x">>, type |-> "file"],
      [name |-> <<"Z",".","t","s">>, type |-> "file"],
      [name |-> <<"v",".","j","s","x">>, type |-> "file"],
      [name |-> <<"n",".","t","x","t">>, type |-> "file"],
      [name |-> <<"i","m","a","g","e",".","p","n","g">>, type |-> "file"],
      [name |-> <<"x",".","M","D">>, type |-> "file"],
      [name |-> <<"a",".","p","y","c">>, type |-> "file"] }

MainPool ==
    { [name |-> <<"s","r","c">>, type |-> "dir"],
      [name |-> <<"b",".","p","y">>, type |-> "file"],
      [name |-> <<"a",".","m","d">>, type |-> "file"],
      [name |-> <<"i","m","a","g","e",".","p","n","g">>, type |-> "file"] }

PathOf(dir, name) == IF dir = <<>> THEN name ELSE dir \o <<"/">> \o name

RawEntry(dir, e) == [name |-> e.name, path |-> PathOf(dir, e.name), type |-> e.type]

Distinct(s) == \A i \in 1..Len(s) : \A j \in 1..Len(s) : i # j => s[i] # s[j]

ListingOutcomes(pool, dir) ==
    {[kind |-> "raise", entries |-> <<>>]}
    \cup (IF dir = <<>> THEN {} ELSE {[kind |-> "single", entries |-> <<>>]})
    \cup {[kind |-> "list", entries |-> [i \in 1..Len(s) |-> RawEntry(dir, s[i])]] :
             s \in {t \in BoundedSeq(pool, MaxEntries) : Distinct(t)}}

(***************************************************************************)
(* The lister called on its own, for the root and for a subdirectory.      *)
(***************************************************************************)
InitList ==
    /\ pc = "list_call"
    /\ status = "running"
    /\ url = <<>>
    /\ pres = NoResult
    /\ base = NoCall
    /\ lpath \in {<<>>, SrcDir}
    /\ raw = NoListing
    /\ items = <<>>
    /\ selected = <<>>
    /\ remote = <<>>
    /\ doc = <<>>
    /\ errors = <<>>
    /\ warnings = <<>>
    /\ calls = <<>>

ListCall ==
    /\ pc = "list_call"
    /\ \E out \in ListingOutcomes(ListPool, lpath) :
          LET r == GetRepoStructure(lpath, out)
          IN  /\ raw' = out
              /\ items' = r.items
              /\ errors' = errors \o r.errors
              /\ calls' = calls \o r.calls
              /\ status' = IF r.raised THEN "raised" ELSE "returned"
    /\ pc' = "list_done"
    /\ UNCHANGED <<url, pres, base, lpath, selected, remote, doc, warnings>>

NextList == ListCall

SpecList == InitList /\ [][NextList]_vars

(***************************************************************************)
(* Properties of the lister.                                               *)
(***************************************************************************)
ListedExtensions ==
    { <<".","m","d">>, <<".","p","y">>, <<".","j","s">>, <<".","t","s","x">>,
      <<".","t","s">>, <<".","j","s","x">>, <<".","t","x","t">> }

\* the kind of entry a raw entry must produce, or "none" when it is dropped
ExpectedKind(c) ==
    IF c.type = "dir" THEN "directory"
    ELSE IF \E x \in ListedExtensions : EndsWith(c.name, x) THEN "file"
    ELSE "none"

CountItems(path) == Cardinality({j \in 1..Len(items) : items[j].path = path})

\* C4: a successful listing yields exactly one Directory entry per raw directory,
\* exactly one File entry per raw file whose name ends with a listed extension
\* (case-sensitively), and nothing else.
C4_FilterByExtension ==
    (pc = "list_done" /\ raw.kind = "list") =>
        /\ status = "returned"
        /\ errors = <<>>
        /\ \A i \in 1..Len(raw.entries) :
              LET c == raw.entries[i]
              IN  IF ExpectedKind(c) = "none" THEN CountItems(c.path) = 0
                  ELSE /\ CountItems(c.path) = 1
                       /\ \E j \in 1..Len(items) :
                             items[j] = [path |-> c.path, name |-> c.name,
                                         type |-> ExpectedKind(c)]
        /\ \A j \in 1..Len(items) :
              \E i \in 1..Len(raw.entries) : raw.entries[i].path = items[j].path

C4_Witness ==
    /\ pc = "list_done"
    /\ raw.kind = "list"
    /\ Len(raw.entries) = 3
    /\ Len(items) = 2
    /\ \E i \in 1..3 : raw.entries[i].type = "dir"
    /\ \E i \in 1..3 : raw.entries[i].name = <<"x",".","M","D">>

\* C5: in the returned sequence every Directory entry precedes every File entry,
\* and inside each group the paths ascend.
C5_DirectoriesFirstThenByPath ==
    pc = "list_done" =>
        \A i \in 1..Len(items) : \A j \in 1..Len(items) :
            i < j =>
                /\ items[i].type = "file" => items[j].type = "file"
                /\ items[i].type = items[j].type =>
                       StrLess(items[i].path, items[j].path)

C5_Witness ==
    /\ pc = "list_done"
    /\ Len(items) = 3
    /\ items[1].type = "directory"
    /\ items[2].type = "file"
    /\ raw.entries[1].path = items[3].path
    /\ raw.entries[3].path = items[1].path
    /\ StrLess(items[2].path, items[1].path)

\* C6: when the listing call fails, the failure is reported once with the path,
\* the listing is not called again, nothing is raised and the result is empty.
C6_ListingFailureContained ==
    (pc = "list_done" /\ raw.kind # "list") =>
        /\ status = "returned"
        /\ items = <<>>
        /\ errors = <<PathError(lpath)>>
        /\ calls = <<ListingCall(lpath)>>

C6_Witness ==
    /\ pc = "list_done"
    /\ raw.kind = "raise"
    /\ lpath = SrcDir
    /\ Len(errors) = 1

(***************************************************************************)
(* get_selected_contents                                                   *)
(***************************************************************************)
\* base64.b64decode of the transport form, for the contents of the model:
\* "eA==" is byte 120, "" is no bytes, "/w==" is byte 255, and a file too large
\* for the API has no content (None), which b64decode refuses with TypeError
B64Decode(enc) ==
    CASE enc = "eA==" -> [exc |-> "none", bytes |-> <<120>>]
      [] enc = ""     -> [exc |-> "none", bytes |-> <<>>]
      [] enc = "/w==" -> [exc |-> "none", bytes |-> <<255>>]
      [] OTHER        -> [exc |-> "TypeError", bytes |-> <<>>]

\* bytes.decode('utf-8'): a one-byte character is below 128, and byte 255
\* starts no UTF-8 sequence
Utf8Decode(bytes) ==
    IF \A i \in 1..Len(bytes) : bytes[i] < 128
    THEN [exc |-> "none",
          text |-> [i \in 1..Len(bytes) |-> IF bytes[i] = 120 THEN "x" ELSE "y"]]
    ELSE [exc |-> "UnicodeDecodeError", text |-> <<>>]

\* lines 87-88: what repo.get_contents(file_path) gives is fetched and decoded;
\* a raise is a failed fetch, and a list (the path is a directory) has no
\* attribute content
FetchAndDecode(out) ==
    IF out.kind = "raise" THEN [exc |-> "GithubException", text |-> <<>>]
    ELSE IF out.kind = "list" THEN [exc |-> "AttributeError", text |-> <<>>]
    ELSE LET b == B64Decode(out.content)
         IN  IF b.exc # "none" THEN [exc |-> b.exc, text |-> <<>>]
             ELSE Utf8Decode(b.bytes)

Header == <<"#","#","#"," ","F","i","l","e",":"," ">>

\* f"### File: {file_path}\n\n{decoded_content}\n\n"
Block(path, text) == Header \o path \o <<"\n", "\n">> \o text \o <<"\n", "\n">>

\* sep.join(parts)
RECURSIVE Join(_, _)
Join(sep, parts) ==
    IF parts = <<>> THEN <<>>
    ELSE IF Len(parts) = 1 THEN parts[1]
    ELSE parts[1] \o sep \o Join(sep, Tail(parts))

FetchCall(path) ==
    [api |-> "get_contents", path |-> path, by |-> "get_selected_contents"]

DecodeWarning(path, exc) ==
    [text |-> "Could not decode", path |-> path, reason |-> exc]

NoBlocks == [contents |-> <<>>, warnings |-> <<>>, calls |-> <<>>]

\* A mutant: the first failure ends the loop.
RECURSIVE AggLoopBreak(_, _)
AggLoopBreak(paths, rem) ==
    IF paths = <<>> THEN NoBlocks
    ELSE LET p == Head(paths)
             r == FetchAndDecode(rem[p])
             t == AggLoopBreak(Tail(paths), rem)
         IN  IF r.exc = "none"
             THEN [contents |-> <<Block(p, r.text)>> \o t.contents,
                   warnings |-> t.warnings,
                   calls    |-> <<FetchCall(p)>> \o t.calls]
             ELSE [contents |-> <<>>,
                   warnings |-> <<DecodeWarning(p, r.exc)>>,
                   calls    |-> <<FetchCall(p)>>]

\* A mutant: each block is put in front of the blocks collected so far.
RECURSIVE AggLoopPrepend(_, _)
AggLoopPrepend(paths, rem) ==
    IF paths = <<>> THEN NoBlocks
    ELSE LET p == Head(paths)
             r == FetchAndDecode(rem[p])
             t == AggLoopPrepend(Tail(paths), rem)
         IN  IF r.exc = "none"
             THEN [contents |-> t.contents \o <<Block(p, r.text)>>,
                   warnings |-> t.warnings,
                   calls    |-> <<FetchCall(p)>> \o t.calls]
             ELSE [contents |-> t.contents,
                   warnings |-> <<DecodeWarning(p, r.exc)>> \o t.warnings,
                   calls    |-> <<FetchCall(p)>> \o t.calls]

\* the for loop of lines 85-91
RECURSIVE AggLoop(_, _)
AggLoop(paths, rem) ==
    IF paths = <<>> THEN NoBlocks
    ELSE LET p == Head(paths)
             r == FetchAndDecode(rem[p])
             t == AggLoop(Tail(paths), rem)
         IN  IF r.exc = "none"
             THEN [contents |-> <<Block(p, r.text)>> \o t.contents,
                   warnings |-> t.warnings,
                   calls    |-> <<FetchCall(p)>> \o t.calls]
             ELSE [contents |-> t.contents,
                   warnings |-> <<DecodeWarning(p, r.exc)>> \o t.warnings,
                   calls    |-> <<FetchCall(p)>> \o t.calls]

\* get_selected_contents(repo, selected_files)
GetSelectedContents(paths, rem) ==
    LET l == AggLoop(paths, rem)
    IN  [doc      |-> Join(<<"\n">>, l.contents),
         warnings |-> l.warnings,
         calls    |-> l.calls,
         raised   |-> FALSE]

(***************************************************************************)
(* The aggregator called on its own: once on a sequence of paths, then     *)
(* once more on a reordering of it, the remote content unchanged.          *)
(***************************************************************************)
RemoteOutcomes ==
    {[kind |-> "raise", content |-> "None"], [kind |-> "list", content |-> "None"]}
    \cup {[kind |-> "file", content |-> c] : c \in {"eA==", "", "/w==", "None"}}

AggPaths == {<<"a",".","m","d">>, <<"b",".","m","d">>, <<"s","r","c">>}

Reorderings(s) ==
    {[i \in 1..Len(s) |-> s[f[i]]] :
        f \in {g \in [1..Len(s) -> 1..Len(s)] :
                  \A i \in 1..Len(s) : \A j \in 1..Len(s) : i # j => g[i] # g[j]}}

InitAgg ==
    /\ pc = "agg_call"
    /\ status = "running"
    /\ url = <<>>
    /\ pres = NoResult
    /\ base = NoCall
    /\ lpath = <<>>
    /\ raw = NoListing
    /\ items = <<>>
    /\ selected \in BoundedSeq(AggPaths, MaxSel)
    /\ remote \in [AggPaths -> RemoteOutcomes]
    \* what a path that is never fetched holds makes no difference
    /\ \A p \in AggPaths :
          (\A i \in 1..Len(selected) : selected[i] # p) =>
              remote[p] = [kind |-> "raise", content |-> "None"]
    /\ doc = <<>>
    /\ errors = <<>>
    /\ warnings = <<>>
    /\ calls = <<>>

AggCall ==
    /\ pc = "agg_call"
    /\ LET r == GetSelectedContents(selected, remote)
       IN  /\ doc' = r.doc
           /\ warnings' = warnings \o r.warnings
           /\ calls' = calls \o r.calls
           /\ status' = IF r.raised THEN "raised" ELSE "returned"
    /\ pc' = "agg_done"
    /\ UNCHANGED <<url, pres, base, lpath, raw, items, selected, remote, errors>>

AggAgain ==
    /\ pc = "agg_done"
    /\ base = NoCall
    /\ base' = [arg |-> selected, res |-> doc]
    /\ selected' \in Reorderings(selected)
    /\ warnings' = <<>>
    /\ calls' = <<>>
    /\ pc' = "agg_call"
    /\ UNCHANGED <<status, url, pres, lpath, raw, items, remote, doc, errors>>

NextAgg == AggCall \/ AggAgain

SpecAgg == InitAgg /\ [][NextAgg]_vars

(***************************************************************************)
(* Properties of the aggregator.                                           *)
(***************************************************************************)
\* the blocks of a document, read back from its text
HeaderAt(d, i) ==
    /\ i + Len(Header) - 1 <= Len(d)
    /\ SubSeq(d, i, i + Len(Header) - 1) = Header

Starts(d) == {i \in 1..Len(d) : HeaderAt(d, i)}

RECURSIVE Ascending(_)
Ascending(S) ==
    IF S = {} THEN <<>>
    ELSE LET m == CHOOSE x \in S : \A y \in S : x <= y
         IN  <<m>> \o Ascending(S \ {m})

UpToNewline(b) ==
    Take(b, (CHOOSE i \in 1..Len(b) :
                b[i] = "\n" /\ \A j \in 1..(i - 1) : b[j] # "\n") - 1)

\* block k runs from its header to the line feed that joins it to the next
Blocks(d) ==
    LET st == Ascending(Starts(d))
        n  == Len(st)
    IN  [k \in 1..n |->
            LET txt == SubSeq(d, st[k], IF k = n THEN Len(d) ELSE st[k + 1] - 2)
            IN  [path |-> UpToNewline(Drop(txt, Len(Header))), text |-> txt]]

BlockPaths(d) == LET bs == Blocks(d) IN [k \in 1..Len(bs) |-> bs[k].path]

Count(s, x) == Cardinality({i \in 1..Len(s) : s[i] = x})

\* the assignment of success or failure to the paths
Succeeds(p) == remote[p].kind = "file" /\ remote[p].content \in {"eA==", ""}

\* C7: the aggregator never raises, fetches every path of the sequence once and
\* in order, returns one block per occurrence of a path that succeeded and none
\* for a path that failed, warns once per occurrence of a failed path, naming
\* it, and returns the empty document when no path succeeded.
C7_BestEffortAggregation ==
    pc = "agg_done" =>
        /\ status = "returned"
        /\ calls = [i \in 1..Len(selected) |-> FetchCall(selected[i])]
        /\ LET bp == BlockPaths(doc) IN \A p \in AggPaths :
              /\ Count(bp, p) =
                     IF Succeeds(p) THEN Count(selected, p) ELSE 0
              /\ Cardinality({i \in 1..Len(warnings) : warnings[i].path = p}) =
                     IF Succeeds(p) THEN 0 ELSE Count(selected, p)
        /\ \A i \in 1..Len(warnings) : warnings[i].text = "Could not decode"
        /\ (\A i \in 1..Len(selected) : ~Succeeds(selected[i])) => doc = <<>>

C7_Witness ==
    /\ pc = "agg_done"
    /\ Len(selected) = 3
    /\ ~Succeeds(selected[1])
    /\ Succeeds(selected[2])
    /\ remote[selected[3]].content = "/w=="
    /\ Len(warnings) = 2
    /\ Len(Blocks(doc)) = 1

\* C8: the blocks of the document stand in the order of the input sequence; a
\* second call on the same sequence returns the same string, and a second call
\* on a reordering returns the same blocks in the order of the reordering.
C8_OrderPreserving ==
    pc = "agg_done" =>
        LET now  == Blocks(doc)
            was  == Blocks(base.res)
            In(bs, p) == \E k \in 1..Len(bs) : bs[k].path = p
        IN  /\ [k \in 1..Len(now) |-> now[k].path] =
                   SelectSeq(selected, LAMBDA p : In(now, p))
            /\ base # NoCall =>
                  /\ selected = base.arg => doc = base.res
                  /\ [k \in 1..Len(now) |-> now[k].path] =
                         SelectSeq(selected, LAMBDA p : In(was, p))
                  /\ \A k \in 1..Len(now) : \E j \in 1..Len(was) : was[j] = now[k]

C8_Witness ==
    /\ pc = "agg_done"
    /\ base # NoCall
    /\ selected # base.arg
    /\ LET now == Blocks(doc)
           was == Blocks(base.res)
       IN  /\ Len(now) = 2
           /\ now[1] = was[2]
           /\ now[2] = was[1]
           /\ now[1].path # now[2].path

(***************************************************************************)
(* main(): one run of the script for the "GitHub Repository" choice.       *)
(***************************************************************************)
Slash == <<"/">>

MainUrls ==
    {<<>>, <<" ">>, <<"a">>, <<"a">> \o Slash \o <<"b">>,
     HttpsPrefix \o <<"a">> \o Slash \o <<"b">>,
     HostPrefix \o <<"a">> \o Slash \o <<"b">>}

Message(text) == [text |-> text, path |-> <<>>]

\* A mutant: a repository that cannot be opened is reported and the run goes on.
RepoAccessGoesOn(out) ==
    IF out = "ok"
    THEN [pc |-> "list", status |-> "running", errors |-> <<>>]
    ELSE [pc |-> "list", status |-> "repo_error",
          errors |-> <<Message(IF out = "404" THEN "Repository not found"
                                ELSE "Error accessing repository")>>]

\* lines 140-141 and 206-213: g.get_repo either gives the handle or raises, and
\* the handler of the inner try reports it; nothing after line 141 then runs
RepoAccess(out) ==
    IF out = "ok"
    THEN [pc |-> "list", status |-> "running", errors |-> <<>>]
    ELSE [pc |-> "main_end", status |-> "repo_error",
          errors |-> <<Message(IF out = "404" THEN "Repository not found"
                                ELSE "Error accessing repository")>>]

\* A mutant: the check of the entry's type is left out.
RECURSIVE SelectedAnyType(_, _)
SelectedAnyType(its, checked) ==
    IF its = <<>> THEN <<>>
    ELSE (IF Head(its).path \in checked THEN <<Head(its).path>> ELSE <<>>)
         \o SelectedAnyType(Tail(its), checked)

\* lines 158-174: a checkbox is drawn for every item that is no directory, and
\* the paths whose checkbox is on are collected; checked holds the keys whose
\* checkbox returns True
RECURSIVE SelectedFiles(_, _)
SelectedFiles(its, checked) ==
    IF its = <<>> THEN <<>>
    ELSE (IF Head(its).type # "directory" /\ Head(its).path \in checked
          THEN <<Head(its).path>> ELSE <<>>)
         \o SelectedFiles(Tail(its), checked)

Init ==
    /\ pc = "main_start"
    /\ status = "running"
    /\ url \in MainUrls
    /\ pres = NoResult
    /\ base = NoCall
    /\ lpath = <<>>
    /\ raw = NoListing
    /\ items = <<>>
    /\ selected = <<>>
    /\ remote = <<>>
    /\ doc = <<>>
    /\ errors = <<>>
    /\ warnings = <<>>
    /\ calls = <<>>

\* lines 132-136 and 215-216
MainParse ==
    /\ pc = "main_start"
    /\ IF url = <<>>
       THEN /\ pc' = "main_end"
            /\ status' = "no_input"
            /\ UNCHANGED <<pres, errors>>
       ELSE /\ pres' = ParseGithubUrl(url)
            /\ IF pres'.exc = "none"
               THEN /\ pc' = "init_client"
                    /\ UNCHANGED <<status, errors>>
               ELSE /\ pc' = "main_end"
                    /\ status' = "identifier_error"
                    /\ errors' = Append(errors, Message("Invalid GitHub URL"))
    /\ UNCHANGED <<url, base, lpath, raw, items, selected, remote, doc,
                   warnings, calls>>

\* lines 23-28 and 139: without a token the run is stopped
InitClient ==
    /\ pc = "init_client"
    /\ \E token \in BOOLEAN :
          IF token
          THEN /\ pc' = "get_repo"
               /\ UNCHANGED <<status, errors>>
          ELSE /\ pc' = "main_end"
               /\ status' = "no_token"
               /\ errors' = Append(errors, Message("GitHub token not found"))
    /\ UNCHANGED <<url, pres, base, lpath, raw, items, selected, remote, doc,
                   warnings, calls>>

GetRepo ==
    /\ pc = "get_repo"
    /\ \E out \in {"ok", "404", "error"} :
          LET r == RepoAccess(out)
          IN  /\ pc' = r.pc
              /\ status' = r.status
              /\ errors' = errors \o r.errors
    /\ calls' = Append(calls, [api |-> "get_repo",
                               path |-> pres.owner \o Slash \o pres.repo,
                               by |-> "main"])
    /\ UNCHANGED <<url, pres, base, lpath, raw, items, selected, remote, doc,
                   warnings>>

\* lines 144-145
ListTree ==
    /\ pc = "list"
    /\ \E out \in ListingOutcomes(MainPool, lpath) :
          LET r == GetRepoStructure(lpath, out)
          IN  /\ raw' = out
              /\ items' = r.items
              /\ errors' = errors \o r.errors
              /\ calls' = calls \o r.calls
    /\ pc' = "select"
    /\ UNCHANGED <<status, url, pres, base, lpath, selected, remote, doc, warnings>>

\* lines 151-182 and 203-204
SelectFiles ==
    /\ pc = "select"
    /\ \E checked \in SUBSET {PathOf(lpath, e.name) : e \in MainPool} :
          selected' = SelectedFiles(items, checked)
    /\ IF selected' = <<>>
       THEN /\ pc' = "main_end"
            /\ status' = "no_selection"
            /\ warnings' = Append(warnings,
                                  Message("Please select at least one file"))
       ELSE /\ pc' = "button"
            /\ UNCHANGED <<status, warnings>>
    /\ UNCHANGED <<url, pres, base, lpath, raw, items, remote, doc, errors, calls>>

\* line 183
PressButton ==
    /\ pc = "button"
    /\ \E clicked \in BOOLEAN :
          IF clicked
          THEN /\ pc' = "aggregate"
               /\ UNCHANGED status
          ELSE /\ pc' = "main_end"
               /\ status' = "not_clicked"
    /\ UNCHANGED <<url, pres, base, lpath, raw, items, selected, remote, doc,
                   errors, warnings, calls>>

\* lines 184-202
Aggregate ==
    /\ pc = "aggregate"
    /\ \E rem \in [{selected[i] : i \in 1..Len(selected)} -> RemoteOutcomes] :
          LET r == GetSelectedContents(selected, rem)
          IN  /\ remote' = rem
              /\ doc' = r.doc
              /\ calls' = calls \o r.calls
              /\ IF Strip(r.doc) # <<>>
                 THEN /\ status' = "shown"
                      /\ warnings' = warnings \o r.warnings
                 ELSE /\ status' = "no_content"
                      /\ warnings' = warnings \o r.warnings
                                     \o <<Message("No content was found")>>
    /\ pc' = "main_end"
    /\ UNCHANGED <<url, pres, base, lpath, raw, items, selected, errors>>

Next ==
    \/ MainParse
    \/ InitClient
    \/ GetRepo
    \/ ListTree
    \/ SelectFiles
    \/ PressButton
    \/ Aggregate

Spec == Init /\ [][Next]_vars

(***************************************************************************)
(* Properties of the request flow.                                         *)
(***************************************************************************)
CallsBy(who) == SelectSeq(calls, LAMBDA c : c.by = who)

ContentCalls == SelectSeq(calls, LAMBDA c : c.api = "get_contents")

\* C9: after an identifier error or a repository-access error the request is
\* over, the error has been reported and no listing or fetch is made; a listing
\* error and a fetch or decode error leave the request running through the
\* steps and paths that follow.
C9_ErrorPropagation ==
    /\ pres.exc = "ValueError" =>
          /\ pc = "main_end" /\ status = "identifier_error"
          /\ calls = <<>>
          /\ errors = <<Message("Invalid GitHub URL")>>
    /\ status = "repo_error" =>
          /\ pc = "main_end"
          /\ ContentCalls = <<>>
          /\ Len(errors) = 1
          /\ errors[1].text \in {"Repository not found", "Error accessing repository"}
    /\ raw.kind \notin {"unset", "list"} =>
          /\ errors = <<PathError(<<>>)>>
          /\ pc \in {"select", "main_end"}
          /\ pc = "main_end" => status = "no_selection"
    /\ (pc = "main_end" /\ Len(CallsBy("get_selected_contents")) > 0) =>
          /\ status \in {"shown", "no_content"}
          /\ CallsBy("get_selected_contents") =
                 [i \in 1..Len(selected) |-> FetchCall(selected[i])]
          /\ status = "shown" <=> \E i \in 1..Len(selected) :
                                      FetchAndDecode(remote[selected[i]]).exc = "none"

C9_Witness ==
    /\ status = "repo_error"
    /\ pc = "main_end"
    /\ Len(calls) = 1
    /\ errors = <<Message("Repository not found")>>

====
